---- MODULE Spec2Model ----
(***************************************************************************)
(* State-machine model of the whole-slide-image tiling pipeline            *)
(* (tile_generator.py, class WSIHandler): grid planning over the tissue    *)
(* mask, patch extraction inside each kept tile, rule-table labelling,     *)
(* and the per-slide / per-run orchestration.                              *)
(*                                                                         *)
(* Conventions                                                             *)
(*  - A fraction (coverage, overlap, threshold) is a pair <<num, den>>     *)
(*    with den > 0, compared exactly.  The overlap fractions used are      *)
(*    dyadic, so Python's float product patch_size * overlap is exact and  *)
(*    int() of it is the floor computed here; a coverage count/size is     *)
(*    compared with a decimal threshold, and correctly rounded division    *)
(*    orders the floats as the exact fractions are ordered.                *)
(*  - A binary raster is its shape (h, w) and the set of its ZERO pixels   *)
(*    <<y, x>>; np.ones(...) is the raster with no zero pixel.             *)
(*  - A Python dict keyed 0..n-1 is a function on 0..n-1; the rule table   *)
(*    (an insertion-ordered dict) is a sequence of rules.                  *)
(*  - A polygon is an axis-aligned rectangle [x0, y0, x1, y1] in level-0   *)
(*    pixels; cv2.fillPoly fills it with its border, clipped to the raster.*)
(***************************************************************************)
EXTENDS Integers, Sequences, FiniteSets, TLC

\* ------------------------------------------------------------------ bounds
MaxDim == 3      \* SpecGrid: mask height and width
MaxTile == 3     \* SpecGrid: tile side
MaxCoord == 2    \* annotation rectangles start at 0 .. MaxCoord
MaxDown == 2     \* downsample factor of the slide's second level
MaxPatch == 3    \* config patch_size
MaxPPT == 2      \* config patches_per_tile
SlideW == 4      \* level-0 width of the slide
SlideH == 3      \* level-0 height of the slide

None == "None"

\* self.annotation_dict: None, or the dict polygon number -> polygon
NoAnnotation == [is_none |-> TRUE, polygons |-> << >>]
AnnotationSet(polygons) == [is_none |-> FALSE, polygons |-> polygons]

\* ------------------------------------------------------------- arithmetic
Min(a, b) == IF a <= b THEN a ELSE b
Max(a, b) == IF a >= b THEN a ELSE b

\* floor and ceiling of n / d for d > 0 (n of either sign)
FloorDiv(n, d) == n \div d
CeilDiv(n, d) == -((-n) \div d)

\* exact comparison of fractions <<num, den>>, den > 0
FracLe(a, b) == a[1] * b[2] <= b[1] * a[2]
FracLt(a, b) == a[1] * b[2] < b[1] * a[2]
FracEq(a, b) == a[1] * b[2] = b[1] * a[2]

\* The indices a Python/numpy slice [start : stop] selects on an axis of
\* length n: a negative bound counts from the end, and both are clamped.
SliceBound(i, n) == IF i < 0 THEN Max(i + n, 0) ELSE Min(i, n)
SliceIdx(start, stop, n) == SliceBound(start, n) .. (SliceBound(stop, n) - 1)

EmptyDict == [k \in {} |-> k]

\* ------------------------------------------------------------ rasters
\* np.count_nonzero(mask[ys, xs]) for a raster given by its zero pixels
CountNonzero(mask, ys, xs) ==
    Cardinality(ys) * Cardinality(xs)
      - Cardinality({p \in mask.zero : p[1] \in ys /\ p[2] \in xs})

\* Pixel <<y, x>> of the level raster painted by get_relevant_tiles: every
\* point is divided by the level's downsample factor and truncated
\* (astype(np.int32)), then the polygon is filled.
LevelAnnotated(annotation_dict, scaling_factor, y, x) ==
    \E i \in DOMAIN annotation_dict.polygons :
        LET r == annotation_dict.polygons[i] IN
        /\ FloorDiv(r.x0, scaling_factor) <= x
        /\ x <= FloorDiv(r.x1, scaling_factor)
        /\ FloorDiv(r.y0, scaling_factor) <= y
        /\ y <= FloorDiv(r.y1, scaling_factor)

\* np.count_nonzero of the annotation mask over the cell ys x xs
CountAnnotated(annotation_dict, scaling_factor, ys, xs) ==
    Cardinality({p \in ys \X xs :
                    LevelAnnotated(annotation_dict, scaling_factor, p[1], p[2])})

\* ------------------------------------------------------- get_relevant_tiles
\* rows, row_residue = divmod(shape[0], tile_size); if row_residue: rows += 1
GridCountDropResidue(length, tile_size) == length \div tile_size
GridCount(length, tile_size) ==
    IF length % tile_size # 0 THEN length \div tile_size + 1
    ELSE length \div tile_size

\* the slice [k * tile_size : k * tile_size + tile_size] of an axis
CellIdx(k, tile_size, length) ==
    SliceIdx(k * tile_size, k * tile_size + tile_size, length)

\* tissue_coverage = np.count_nonzero(tile) / tile.size
TissueCoverage(mask, tile_size, row, col) ==
    LET ys == CellIdx(row, tile_size, mask.h)
        xs == CellIdx(col, tile_size, mask.w)
    IN  <<CountNonzero(mask, ys, xs), Cardinality(ys) * Cardinality(xs)>>

\* annotated = annotation_dict is not None and the cell holds a painted pixel
CellAnnotated(mask, tile_size, annotation_dict, scaling_factor, row, col) ==
    /\ ~annotation_dict.is_none
    /\ CountAnnotated(annotation_dict, scaling_factor,
                      CellIdx(row, tile_size, mask.h),
                      CellIdx(col, tile_size, mask.w)) > 0

\* if tissue_coverage >= min_coverage or annotated
KeepTileBoth(coverage, min_coverage, annotated) ==
    FracLe(min_coverage, coverage) /\ annotated
KeepTile(coverage, min_coverage, annotated) ==
    FracLe(min_coverage, coverage) \/ annotated

RECURSIVE ScanCells(_, _, _, _, _, _, _, _, _)
ScanCells(k, rows, cols, tile_nb, dict, mask, tile_size, min_coverage, ann) ==
    IF k >= rows * cols THEN dict
    ELSE LET row == k \div cols
             col == k % cols
             annotated == CellAnnotated(mask, tile_size, ann.dict, ann.sf, row, col)
             keep == KeepTile(TissueCoverage(mask, tile_size, row, col),
                              min_coverage, annotated)
             entry == [x |-> col * tile_size, y |-> row * tile_size,
                       size |-> tile_size, level |-> ann.level,
                       annotated |-> annotated]
         IN  ScanCells(k + 1, rows, cols,
                       IF keep THEN tile_nb + 1 ELSE tile_nb,
                       IF keep THEN dict @@ (tile_nb :> entry) ELSE dict,
                       mask, tile_size, min_coverage, ann)

\* the dict get_relevant_tiles returns: cells scanned row by row, the kept
\* ones numbered 0, 1, 2, ... in scan order
GetRelevantTiles(mask, tile_size, min_coverage, level, annotation_dict, scaling_factor) ==
    ScanCells(0, GridCount(mask.h, tile_size), GridCount(mask.w, tile_size), 0,
              EmptyDict, mask, tile_size, min_coverage,
              [dict |-> annotation_dict, sf |-> scaling_factor, level |-> level])

\* ---------------------------------------------------------- check_for_label
\* label_percentage = None
NonePct == << >>

\* One rule of the table against the window's coverage fraction: "match",
\* "nomatch" or "raise".  The "<=" branch subscripts the float
\* label_percentage (line 281), which raises a TypeError whatever the values
\* are; an unknown type matches no branch.
Truth(b) == IF b THEN "match" ELSE "nomatch"
RuleOutcome(rule, label_percentage) ==
    CASE rule.type = "==" -> Truth(FracEq(rule.threshold, label_percentage))
      [] rule.type = ">=" -> Truth(FracLe(rule.threshold, label_percentage))
      [] rule.type = ">"  -> Truth(FracLt(rule.threshold, label_percentage))
      [] rule.type = "<=" -> "raise"
      [] rule.type = "<"  -> Truth(FracLt(label_percentage, rule.threshold))
      [] OTHER -> "nomatch"

\* for label in label_dict: ... return label, label_percentage
RECURSIVE CheckRules(_, _, _)
CheckRules(label_dict, i, label_percentage) ==
    IF i > Len(label_dict)
    THEN [raised |-> FALSE, label |-> None, label_percentage |-> NonePct]
    ELSE LET out == RuleOutcome(label_dict[i], label_percentage) IN
         CASE out = "raise" ->
                [raised |-> TRUE, label |-> None, label_percentage |-> NonePct]
           [] out = "match" ->
                [raised |-> FALSE, label |-> label_dict[i].name,
                 label_percentage |-> label_percentage]
           [] OTHER -> CheckRules(label_dict, i + 1, label_percentage)

\* check_for_label(label_dict, annotation_mask); the window is given by its
\* size and its count of non-zero pixels
CheckForLabel(label_dict, annotation_mask) ==
    CheckRules(label_dict, 1, <<annotation_mask.nonzero, annotation_mask.size>>)

\* ------------------------------------------------------------------ state
VARIABLES
    pc,               \* where the modelled call stands
    run,              \* 1: first run; 2: the same run repeated over its output
    config,           \* self.config
    slide,            \* the slide file: level-0 size and level_downsamples
    annotation_file,  \* the slide's annotation file on disk
    annotation_dict,  \* self.annotation_dict
    annotated,        \* process_slide: the annotation file exists
    level,            \* processing level returned by load_slide
    tissue_mask,      \* the mask get_relevant_tiles scans
    tile_size,        \* tile side at the processing level
    grid,             \* get_relevant_tiles: <<rows, cols>>
    tile_dict,        \* get_relevant_tiles' result
    fs,               \* the slide's output directory
    first,            \* what the first run left: [pc, patch_dict, fs]
    px_overlap, patch_dict, patch_nb,         \* extract_patches
    tile_key, rows, cols, row, col,           \* its loop counters
    stop_x, stop_y, patch_x, patch_y,         \* its clamping state
    patch_mask, label, label_percentage,      \* label evaluation of one patch
    zero_window,      \* np.sum(patch) == 0 in the last iteration
    scan,             \* the iterations run in the current tile, each
                      \* <<row, col, patch_x, patch_y, np.sum(patch) == 0>>
    res_x, res_y,     \* self.res_x, self.res_y: microns per pixel, <<num, den>>
    patch_size_px_x, patch_size_px_y,   \* extract_calibrated_patches
    px_overlap_x, px_overlap_y,         \* its pixel overlaps
    slide_list,       \* slides2patches: the sorted slide files found
    multiprocess,     \* _MULTIPROCESS
    chunksize,        \* slides a pool worker takes as one task
    slide_state,      \* per slide: "pending", "done" or "error"
    idx,              \* position of the sequential loop in slide_list
    worker,           \* per pool process: its task, its slide, the stage of
                      \* process_slide it stands at, its copy of the handler
    written,          \* paths written below output_path: [path, slide, worker]
    owners,           \* per slide: the pool processes that ran process_slide on it
    failed_slides,    \* slides2patches: positions that failed the resolution check
    checks            \* per slide: calls of check_resolution on it

inputs == <<config, slide, annotation_file>>
planner == <<annotation_dict, annotated, level, tissue_mask, tile_size, grid, tile_dict,
             res_x, res_y>>
manifest == <<patch_dict, patch_nb>>
calibrated == <<patch_size_px_x, patch_size_px_y, px_overlap_x, px_overlap_y>>
loop == <<px_overlap, tile_key, rows, cols, row, col, stop_x, stop_y, patch_x,
          patch_y, zero_window, scan, calibrated>>
labelling == <<patch_mask, label, label_percentage>>
pool == <<worker, written, owners>>
resolution == <<failed_slides, checks>>
batch == <<slide_list, multiprocess, chunksize, slide_state, idx, pool, resolution>>
vars == <<pc, run, inputs, planner, fs, first, manifest, loop, labelling, batch>>

\* ------------------------------------------------------------- __init__
\* the asserts of the constructor (line 34 tests config["overlap"] a second
\* time, not config["annotation_overlap"])
ConfigAccepted(c) ==
    /\ FracLe(c.tissue_coverage, <<1, 1>>) /\ FracLe(<<0, 1>>, c.tissue_coverage)
    /\ c.blocked_threads >= 0
    /\ c.patches_per_tile >= 1
    /\ FracLe(<<0, 1>>, c.overlap) /\ FracLt(c.overlap, <<1, 1>>)
    /\ FracLe(<<0, 1>>, c.annotation_overlap) /\ FracLt(c.overlap, <<1, 1>>)

\* self.res_x = None, self.res_y = None
NoRes == << >>

\* ------------------------------------------------- load_annotation, load_slide
SupportedFormats == {".geojson", ".txt", ".xml"}
LoadAnnotation(file) ==
    IF file.format \in SupportedFormats THEN AnnotationSet(file.polygons)
    ELSE NoAnnotation

\* self.levels = level_count - 1; a processing level above it is lowered to it
LoadSlide(s, processing_level) ==
    IF Len(s.level_downsamples) - 1 < processing_level
    THEN Len(s.level_downsamples) - 1
    ELSE processing_level

Downsample(s, lvl) == s.level_downsamples[lvl + 1]

\* slide.level_dimensions[level] as <<width, height>>
LevelDimensions(s, lvl) ==
    <<s.width \div Downsample(s, lvl), s.height \div Downsample(s, lvl)>>

\* mask = np.ones(shape=level_dimensions[level]).transpose(), or the tissue
\* detector's raster of the same shape
BuildMask(s, lvl, use_tissue_detection) ==
    LET dims == LevelDimensions(s, lvl) IN
    [h |-> dims[2], w |-> dims[1],
     zero |-> IF use_tissue_detection
              THEN {p \in (0 .. dims[2] - 1) \X (0 .. dims[1] - 1) : p \in s.background}
              ELSE {}]

\* ------------------------------------------------------ init_patch_calibration
\* only aperio and generic-tiff assign scanner; with another vendor the
\* assert on line 700 reads an unassigned name
IntegratedVendors == {"aperio", "generic-tiff"}
InitPatchCalibrationRaises(s) == s.vendor \notin IntegratedVendors

\* np.round of the fraction num / den >= 0: to the nearest integer, a tie to
\* the even one
RoundHalfUp(num, den) == (2 * num + den) \div (2 * den)
RoundHalfEven(num, den) ==
    LET q == num \div den
        twice == 2 * (num % den)
    IN  IF twice < den THEN q
        ELSE IF twice > den THEN q + 1
        ELSE IF q % 2 = 0 THEN q ELSE q + 1

\* int(np.round(patch_size_microns / res)), res = <<num, den>> microns per pixel
PatchSizePxTruncated(microns, res) == (microns * res[2]) \div res[1]
PatchSizePx(microns, res) == RoundHalfEven(microns * res[2], res[1])

\* -------------------------------------------------------- determine_tile_size
\* tile_size_0 = patches_per_tile * patch_size, or in calibration mode
\* (patch_size_microns / res_x) * patches_per_tile;
\* tile_size = int(tile_size_0 / int(level_downsamples[level]))
DetermineTileSize(c, res, downscale_factor) ==
    IF c.calibration.use_non_pixel_lengths
    THEN (c.calibration.patch_size_microns * c.patches_per_tile * res[2])
            \div (res[1] * downscale_factor)
    ELSE (c.patches_per_tile * c.patch_size) \div downscale_factor

\* ------------------------------------------------------------------ make_dirs
EmptyFs ==
    [dirs |-> {}, patches |-> EmptyDict, meta |-> {},
     tile_information |-> [written |-> FALSE, content |-> EmptyDict],
     slide_information |-> [written |-> FALSE, content |-> EmptyDict]]

LabelNames(label_dict) == {label_dict[i].name : i \in DOMAIN label_dict}

\* the slide directory, and "unlabeled" or one directory per label
MakeDirs(dirs, label_dict, is_annotated) ==
    dirs \cup {"."} \cup (IF is_annotated THEN LabelNames(label_dict) ELSE {"unlabeled"})

\* ------------------------------------------------------------ extract_patches
\* int() of a fraction: truncation towards zero
PyInt(num, den) == IF num >= 0 THEN num \div den ELSE -((-num) \div den)

\* px_overlap = int(patch_size * overlap_fraction)
PxOverlap(patch_size, fraction) == PyInt(patch_size * fraction[1], fraction[2])

\* the overlap fraction of a tile: annotation_overlap if it is flagged
TileOverlapBase(c, tile) == c.overlap
TileOverlap(c, tile) == IF tile.annotated THEN c.annotation_overlap ELSE c.overlap

\* int(np.ceil(tile_size / stride)), stride # 0
LoopCount(tile_px, stride) ==
    IF stride > 0 THEN CeilDiv(tile_px, stride) ELSE -(tile_px \div (-stride))

\* if position + patch_size >= tile_size: position = tile_size - patch_size
ReachesEdgeStrict(position, patch_size, tile_px) == position + patch_size > tile_px
ReachesEdge(position, patch_size, tile_px) == position + patch_size >= tile_px
Clamp(position, patch_size, tile_px) ==
    IF ReachesEdge(position, patch_size, tile_px) THEN tile_px - patch_size
    ELSE position

\* global_x = patch_x + tile_x, global_y = patch_y + tile_y
GlobalOriginInTile(position, tile_origin) == position
GlobalOrigin(position, tile_origin) == position + tile_origin

\* the tile read at level 0 is zero outside the slide: pixel <<y, x>> of the
\* tile at <<tile_x, tile_y>> holds slide content
HasContent(s, tile_x, tile_y, y, x) == tile_x + x < s.width /\ tile_y + y < s.height

\* np.sum(patch) == 0
WindowIsZero(s, tile_x, tile_y, ys, xs) ==
    ~\E y \in ys, x \in xs : HasContent(s, tile_x, tile_y, y, x)

\* pixel <<y, x>> of the tile's annotation mask: the polygons translated by
\* the tile's origin and filled
TileAnnotated(annotations, tile_x, tile_y, y, x) ==
    \E i \in DOMAIN annotations.polygons :
        LET r == annotations.polygons[i] IN
        /\ r.x0 - tile_x <= x /\ x <= r.x1 - tile_x
        /\ r.y0 - tile_y <= y /\ y <= r.y1 - tile_y

\* patch_mask = tile_annotation_mask[ys, xs], as [size, nonzero]
PatchMask(annotations, tile_x, tile_y, ys, xs) ==
    [size |-> Cardinality(ys) * Cardinality(xs),
     nonzero |-> Cardinality({p \in ys \X xs :
                    TileAnnotated(annotations, tile_x, tile_y, p[1], p[2])})]

\* self.config["label_dict"][label]["annotated"]
LabelIsAnnotated(label_dict, name) ==
    \E i \in DOMAIN label_dict : label_dict[i].name = name /\ label_dict[i].annotated

\* if label is not None: if self.annotated_only and annotated or not self.annotated_only
EmitUnlabelled(lbl, annotated_only, patch_annotated) ==
    (annotated_only /\ patch_annotated) \/ ~annotated_only
Emit(lbl, annotated_only, patch_annotated) ==
    lbl # None /\ ((annotated_only /\ patch_annotated) \/ ~annotated_only)

\* the manifest record of one patch
PatchRecord(slide_name, lbl, pct, global_x, global_y, patch_size) ==
    [slide_name |-> slide_name,
     patch_path |-> <<lbl, <<slide_name, global_x, global_y>>>>,
     label |-> lbl, tumor_coverage |-> pct,
     x_pos |-> global_x, y_pos |-> global_y,
     patch_size_x |-> patch_size, patch_size_y |-> patch_size]

\* ---------------------------------------------------------------- actions
\* WSIHandler(config): the constructor's asserts
Construct ==
    /\ pc = "construct"
    /\ pc' = IF ConfigAccepted(config) THEN "load_annotation" ELSE "rejected"
    /\ UNCHANGED <<batch, run, inputs, planner, fs, first, manifest, loop, labelling>>

\* process_slide, lines 714-722
LoadAnnotationStep ==
    /\ pc = "load_annotation"
    /\ annotated' = annotation_file.exists
    /\ annotation_dict' = IF annotation_file.exists
                          THEN LoadAnnotation(annotation_file) ELSE NoAnnotation
    /\ pc' = "load_slide"
    /\ UNCHANGED <<batch, run, inputs, level, tissue_mask, tile_size, grid, tile_dict,
                   res_x, res_y,
                   fs, first, manifest, loop, labelling>>

\* process_slide, lines 724-737: load_slide, in calibration mode
\* init_patch_calibration, and the mask
LoadSlideStep ==
    /\ pc = "load_slide"
    /\ level' = LoadSlide(slide, config.processing_level)
    /\ IF config.calibration.use_non_pixel_lengths /\ InitPatchCalibrationRaises(slide)
       THEN pc' = "error" /\ UNCHANGED <<res_x, res_y, tissue_mask>>
       ELSE /\ IF config.calibration.use_non_pixel_lengths
               THEN res_x' = slide.mpp_x /\ res_y' = slide.mpp_y
               ELSE UNCHANGED <<res_x, res_y>>
            /\ tissue_mask' = BuildMask(slide, level', config.use_tissue_detection)
            /\ pc' = "determine_tile_size"
    /\ UNCHANGED <<batch, run, inputs, annotation_dict, annotated, tile_size, grid,
                   tile_dict, fs, first, manifest, loop, labelling>>

DetermineTileSizeStep ==
    /\ pc = "determine_tile_size"
    /\ tile_size' = DetermineTileSize(config, res_x, Downsample(slide, level))
    /\ pc' = "get_relevant_tiles"
    /\ UNCHANGED <<batch, run, inputs, annotation_dict, annotated, level, tissue_mask,
                   res_x, res_y,
                   grid, tile_dict, fs, first, manifest, loop, labelling>>

\* get_relevant_tiles; divmod by a tile size of 0 raises ZeroDivisionError
GetRelevantTilesStep ==
    /\ pc = "get_relevant_tiles"
    /\ IF tile_size = 0
       THEN /\ pc' = "error"
            /\ UNCHANGED <<grid, tile_dict>>
       ELSE /\ grid' = <<GridCount(tissue_mask.h, tile_size),
                         GridCount(tissue_mask.w, tile_size)>>
            /\ tile_dict' = GetRelevantTiles(tissue_mask, tile_size,
                                config.tissue_coverage, level, annotation_dict,
                                Downsample(slide, level))
            /\ pc' = "make_dirs"
    /\ UNCHANGED <<batch, run, inputs, annotation_dict, annotated, level, tissue_mask,
                   res_x, res_y,
                   tile_size, fs, first, manifest, loop, labelling>>

\* make_dirs and save_thumbnail
MakeDirsStep ==
    /\ pc = "make_dirs"
    /\ fs' = [fs EXCEPT !.dirs = MakeDirs(@, config.label_dict, annotated),
                        !.meta = @ \cup {"thumbnail", "mask_img"}]
    /\ pc' = "extract_patches"
    /\ UNCHANGED <<batch, run, inputs, planner, first, manifest, loop, labelling>>

ExtractStartKeepCounter ==
    /\ pc = "extract_patches" /\ ~config.calibration.use_non_pixel_lengths
    /\ px_overlap' = PxOverlap(config.patch_size, config.overlap)
    /\ patch_dict' = EmptyDict
    /\ tile_key' = 0
    /\ pc' = "tile"
    /\ UNCHANGED <<batch, run, inputs, planner, fs, first, patch_nb, rows, cols, row, col,
                   stop_x, stop_y, patch_x, patch_y, zero_window, scan, calibrated,
                   labelling>>

\* extract_patches, lines 462-466
ExtractStart ==
    /\ pc = "extract_patches" /\ ~config.calibration.use_non_pixel_lengths
    /\ px_overlap' = PxOverlap(config.patch_size, config.overlap)
    /\ patch_dict' = EmptyDict
    /\ patch_nb' = 0
    /\ tile_key' = 0
    /\ pc' = "tile"
    /\ UNCHANGED <<batch, run, inputs, planner, fs, first, rows, cols, row, col,
                   stop_x, stop_y, patch_x, patch_y, zero_window, scan, calibrated,
                   labelling>>

\* for tile_key in tile_dict: exhausted, return patch_dict
TileLoopEnd ==
    /\ pc = "tile"
    /\ tile_key \notin DOMAIN tile_dict
    /\ pc' = "export_dict"
    /\ UNCHANGED <<batch, run, inputs, planner, fs, first, manifest, loop, labelling>>

\* if self.annotated_only and not tile_dict[tile_key]["annotated"]: pass
TileProcessed(c, tile) == ~(c.save_annotated_only /\ ~tile.annotated)

\* lines 470-471: an unflagged tile is passed over in save-annotated-only mode
TileSkip ==
    /\ pc = "tile"
    /\ tile_key \in DOMAIN tile_dict
    /\ ~TileProcessed(config, tile_dict[tile_key])
    /\ tile_key' = tile_key + 1
    /\ scan' = << >>
    /\ zero_window' = FALSE
    /\ UNCHANGED <<pc, batch, run, inputs, planner, fs, first, manifest, px_overlap,
                   rows, cols, row, col, stop_x, stop_y, patch_x, patch_y, calibrated,
                   labelling>>

\* lines 475-508: the tile's overlap, rows and cols; a stride of 0 raises
\* ZeroDivisionError, a loop count <= 0 runs no iteration
TileStart ==
    /\ pc = "tile"
    /\ tile_key \in DOMAIN tile_dict
    /\ TileProcessed(config, tile_dict[tile_key])
    /\ LET tile == tile_dict[tile_key]
           tile_px == tile.size * Downsample(slide, level)
           overlap_px == PxOverlap(config.patch_size, TileOverlap(config, tile))
           stride == config.patch_size - overlap_px
       IN  /\ px_overlap' = overlap_px
           /\ scan' = << >>
           /\ zero_window' = FALSE
           /\ IF stride = 0
              THEN /\ pc' = "error"
                   /\ UNCHANGED <<tile_key, rows, cols, row, col, stop_x, stop_y>>
              ELSE /\ rows' = LoopCount(tile_px, stride)
                   /\ cols' = LoopCount(tile_px, stride)
                   /\ stop_y' = FALSE
                   /\ IF LoopCount(tile_px, stride) <= 0
                      THEN /\ tile_key' = tile_key + 1
                           /\ UNCHANGED <<pc, row, col, stop_x>>
                      ELSE /\ pc' = "patch"
                           /\ row' = 0 /\ col' = 0 /\ stop_x' = FALSE
                           /\ UNCHANGED tile_key
    /\ UNCHANGED <<batch, run, inputs, planner, fs, first, manifest, patch_x, patch_y,
                   calibrated, labelling>>

\* lines 510-585: one iteration of the patch loops, with the break logic that
\* follows it
PatchStep ==
    /\ pc = "patch"
    /\ LET tile == tile_dict[tile_key]
           scaling_factor == Downsample(slide, level)
           tile_x == tile.x * scaling_factor
           tile_y == tile.y * scaling_factor
           tile_px == tile.size * scaling_factor
           patch_size == config.patch_size
           stride == patch_size - px_overlap
           new_stop_y == stop_y \/ ReachesEdge(row * stride, patch_size, tile_px)
           new_stop_x == stop_x \/ ReachesEdge(col * stride, patch_size, tile_px)
           py == Clamp(row * stride, patch_size, tile_px)
           px == Clamp(col * stride, patch_size, tile_px)
           ys == SliceIdx(py, py + patch_size, tile_px)
           xs == SliceIdx(px, px + patch_size, tile_px)
           global_x == GlobalOrigin(px, tile_x)
           global_y == GlobalOrigin(py, tile_y)
           zero == config.save_patches /\ WindowIsZero(slide, tile_x, tile_y, ys, xs)
           mask == PatchMask(annotation_dict, tile_x, tile_y, ys, xs)
           res == IF annotation_dict.is_none
                  THEN [raised |-> FALSE, label |-> "unlabeled",
                        label_percentage |-> NonePct]
                  ELSE CheckForLabel(config.label_dict, mask)
           patch_annotated == /\ ~annotation_dict.is_none
                              /\ res.label # None
                              /\ LabelIsAnnotated(config.label_dict, res.label)
           emit == Emit(res.label, config.save_annotated_only, patch_annotated)
           \* patch.save into a directory make_dirs did not create
           save_fails == emit /\ config.save_patches /\ res.label \notin fs.dirs
           end_row == zero \/ new_stop_x \/ col + 1 >= cols
           end_tile == end_row /\ (new_stop_y \/ row + 1 >= rows)
           failed == ~zero /\ (res.raised \/ save_fails)
       IN  /\ patch_x' = px
           /\ patch_y' = py
           /\ stop_y' = new_stop_y
           /\ scan' = Append(scan, <<row, col, px, py, zero>>)
           /\ zero_window' = zero
           /\ patch_mask' = IF zero \/ annotation_dict.is_none THEN patch_mask ELSE mask
           /\ IF zero \/ res.raised
              THEN UNCHANGED <<label, label_percentage>>
              ELSE label' = res.label /\ label_percentage' = res.label_percentage
           /\ IF ~zero /\ ~failed /\ emit
              THEN /\ patch_dict' = patch_dict @@
                        (patch_nb :> PatchRecord(slide.name, res.label,
                             res.label_percentage, global_x, global_y, patch_size))
                   /\ patch_nb' = patch_nb + 1
                   /\ fs' = IF config.save_patches
                            THEN [fs EXCEPT !.patches =
                                   [k \in DOMAIN @ \cup {<<res.label, global_x, global_y>>} |->
                                      IF k = <<res.label, global_x, global_y>>
                                      THEN <<tile_x, tile_y, ys, xs>>
                                      ELSE @[k]]]
                            ELSE fs
              ELSE UNCHANGED <<patch_dict, patch_nb, fs>>
           /\ IF failed
              THEN /\ pc' = "error"
                   /\ stop_x' = new_stop_x
                   /\ UNCHANGED <<row, col, tile_key>>
              ELSE /\ pc' = IF end_tile THEN "tile" ELSE "patch"
                   /\ tile_key' = IF end_tile THEN tile_key + 1 ELSE tile_key
                   /\ row' = IF end_row /\ ~end_tile THEN row + 1 ELSE row
                   /\ col' = IF end_tile THEN col ELSE IF end_row THEN 0 ELSE col + 1
                   /\ stop_x' = IF end_row /\ ~end_tile THEN FALSE ELSE new_stop_x
    /\ UNCHANGED <<batch, run, inputs, planner, first, px_overlap, rows, cols, calibrated>>

\* export_dict writes a file for "json" and "csv"; for any other format it
\* prints a message and writes nothing
ExportDictWrites(metadata_format) == metadata_format \in {"json", "csv"}

\* process_slide, lines 791-792: export_dict(patch_dict, ..., "tile_information")
ExportDict ==
    /\ pc = "export_dict"
    /\ fs' = IF ExportDictWrites(config.metadata_format)
             THEN [fs EXCEPT !.tile_information = [written |-> TRUE, content |-> patch_dict],
                             !.meta = @ \cup {"tile_information"}]
             ELSE fs
    /\ pc' = "export_slide_info"
    /\ UNCHANGED <<batch, run, inputs, planner, first, manifest, loop, labelling>>

\* process_slide, line 801
ExportSlideInfo ==
    /\ pc = "export_slide_info"
    /\ fs' = [fs EXCEPT !.meta = @ \cup {"slide_info"}]
    /\ pc' = "done"
    /\ UNCHANGED <<batch, run, inputs, planner, first, manifest, loop, labelling>>

\* ------------------------------------------------------------- inputs
Fractions == {<<0, 1>>, <<1, 2>>, <<1, 1>>}

Rule(name, type, threshold, is_annotated) ==
    [name |-> name, type |-> type, threshold |-> threshold, annotated |-> is_annotated]

\* rule tables: the usual pair; a table no rule of which holds below 1/2; a
\* table whose annotation class holds at coverage 0; a table with "<="
LabelTables ==
    { << Rule("non_tumor", "==", <<0, 1>>, FALSE), Rule("tumor", ">", <<0, 1>>, TRUE) >>,
      << Rule("tumor", ">=", <<1, 2>>, TRUE) >>,
      << Rule("tumor", ">=", <<0, 1>>, TRUE), Rule("non_tumor", "<", <<1, 1>>, FALSE) >>,
      << Rule("tumor", ">", <<1, 2>>, TRUE), Rule("non_tumor", "<=", <<1, 2>>, FALSE) >> }

\* "calibration": {"use_non_pixel_lengths": false, ...}
NoCalibration == [use_non_pixel_lengths |-> FALSE, patch_size_microns |-> 0, resize |-> FALSE]

Configs ==
    [tissue_coverage : {<<1, 2>>, <<3, 2>>},
     blocked_threads : {0},
     patches_per_tile : 1 .. MaxPPT,
     overlap : Fractions,
     annotation_overlap : Fractions,
     patch_size : 1 .. MaxPatch,
     save_annotated_only : BOOLEAN,
     save_patches : BOOLEAN,
     label_dict : LabelTables,
     processing_level : {1},
     use_tissue_detection : {FALSE},
     metadata_format : {"json"},
     calibration : {NoCalibration}]

Pyramids == {<<1>>} \cup {<<1, d>> : d \in 2 .. MaxDown}

Slides ==
    [name : {"slide"}, width : {SlideW}, height : {SlideH},
     level_downsamples : Pyramids, background : {{}}]

SlideRects == {[x0 |-> a, y0 |-> a, x1 |-> a + 1, y1 |-> a] : a \in 0 .. MaxCoord}

AnnotationFiles ==
    {[exists |-> FALSE, format |-> ".geojson", polygons |-> << >>],
     [exists |-> TRUE, format |-> ".geojson", polygons |-> << >>]}
    \cup {[exists |-> TRUE, format |-> ".geojson", polygons |-> <<r>>] : r \in SlideRects}
    \cup {[exists |-> TRUE, format |-> ".json",
           polygons |-> <<[x0 |-> 0, y0 |-> 0, x1 |-> 1, y1 |-> 0]>>]}

\* patch_side=256, overlap=0, tile_side_px=512: one tile of a 512 x 512 slide
Config256 ==
    [tissue_coverage |-> <<1, 2>>, blocked_threads |-> 0, patches_per_tile |-> 2,
     overlap |-> <<0, 1>>, annotation_overlap |-> <<0, 1>>, patch_size |-> 256,
     save_annotated_only |-> FALSE, save_patches |-> FALSE,
     label_dict |-> << Rule("non_tumor", "==", <<0, 1>>, FALSE),
                       Rule("tumor", ">", <<0, 1>>, TRUE) >>,
     processing_level |-> 0, use_tissue_detection |-> FALSE,
     metadata_format |-> "json", calibration |-> NoCalibration]
Slide512 ==
    [name |-> "slide", width |-> 512, height |-> 512, level_downsamples |-> <<1>>,
     background |-> {}]
NoAnnotationFile == [exists |-> FALSE, format |-> ".geojson", polygons |-> << >>]

\* "metadata_format": the two formats export_dict knows and one it does not
MetadataFormats == {"json", "csv", "txt"}

\* ---------------------------------------------------------------- the run
FreshPlanner ==
    /\ annotation_dict = NoAnnotation /\ annotated = FALSE /\ level = 0
    /\ tissue_mask = [h |-> 0, w |-> 0, zero |-> {}]
    /\ tile_size = 0 /\ grid = <<0, 0>> /\ tile_dict = EmptyDict
    /\ res_x = NoRes /\ res_y = NoRes

FreshExtract ==
    /\ px_overlap = 0 /\ patch_dict = EmptyDict /\ patch_nb = 0
    /\ tile_key = 0 /\ rows = 0 /\ cols = 0 /\ row = 0 /\ col = 0
    /\ stop_x = FALSE /\ stop_y = FALSE /\ patch_x = 0 /\ patch_y = 0
    /\ patch_mask = [size |-> 0, nonzero |-> 0]
    /\ label = None /\ label_percentage = NonePct
    /\ zero_window = FALSE /\ scan = << >>
    /\ patch_size_px_x = 0 /\ patch_size_px_y = 0
    /\ px_overlap_x = 0 /\ px_overlap_y = 0

NoFirst == [pc |-> "none", patch_dict |-> EmptyDict, fs |-> EmptyFs]

\* a handler called on one slide, outside slides2patches
NoBatch ==
    /\ slide_list = << >> /\ slide_state = << >>
    /\ multiprocess = TRUE /\ chunksize = 1 /\ idx = 0
    /\ worker = << >> /\ written = {} /\ owners = << >>
    /\ failed_slides = << >> /\ checks = << >>

\* one slide through the constructor and process_slide
Init ==
    /\ pc = "construct" /\ run = 1
    /\ \/ config \in Configs /\ slide \in Slides /\ annotation_file \in AnnotationFiles
       \/ /\ config \in {[Config256 EXCEPT !.metadata_format = f] : f \in MetadataFormats}
          /\ slide = Slide512 /\ annotation_file = NoAnnotationFile
    /\ fs = EmptyFs /\ first = NoFirst /\ NoBatch
    /\ FreshPlanner /\ FreshExtract

Next ==
    \/ Construct \/ LoadAnnotationStep \/ LoadSlideStep \/ DetermineTileSizeStep
    \/ GetRelevantTilesStep \/ MakeDirsStep \/ ExtractStart
    \/ TileLoopEnd \/ TileSkip \/ TileStart \/ PatchStep
    \/ ExportDict \/ ExportSlideInfo

Spec == Init /\ [][Next]_vars

\* process_slide called a second time for the same slide, on the same handler
\* and over the output the first call left (the sequential loop of
\* slides2patches calls it once per list entry)
Terminal == pc \in {"done", "error"}
Rerun ==
    /\ Terminal /\ run = 1
    /\ run' = 2
    /\ first' = [pc |-> pc, patch_dict |-> patch_dict, fs |-> fs]
    /\ pc' = "load_annotation"
    /\ UNCHANGED <<batch, inputs, planner, fs, manifest, loop, labelling>>

SpecRerun == Init /\ [][Next \/ Rerun]_vars

\* ------------------------------------------------- get_relevant_tiles alone
\* tissue occupies the top-left zy x zx block of the mask
GridMasks ==
    {[h |-> hh, w |-> ww,
      zero |-> {p \in (0 .. hh - 1) \X (0 .. ww - 1) : p[1] >= zy \/ p[2] >= zx}] :
        hh \in 1 .. MaxDim, ww \in 1 .. MaxDim, zy \in 0 .. MaxDim, zx \in 0 .. MaxDim}

GridAnnotations ==
    {NoAnnotation, AnnotationSet(<< >>)}
    \cup {AnnotationSet(<<[x0 |-> a, y0 |-> b, x1 |-> a, y1 |-> b]>>) :
            a \in 0 .. MaxCoord, b \in 0 .. MaxCoord}
    \cup {AnnotationSet(<<r>>) : r \in SlideRects}

MinCoverages == {<<0, 1>>, <<1, 10>>, <<1, 2>>, <<1, 1>>}

GridConfig(min_coverage) == [Config256 EXCEPT !.tissue_coverage = min_coverage]

\* the slide a mask of shape (h, w) at downsample d belongs to
GridSlide(m, d) ==
    [name |-> "slide", width |-> m.w * d, height |-> m.h * d,
     level_downsamples |-> IF d = 1 THEN <<1>> ELSE <<1, d>>, background |-> m.zero]

InitGrid ==
    /\ pc = "get_relevant_tiles" /\ run = 1
    /\ \/ \E m \in GridMasks, d \in 1 .. MaxDown :
            /\ tissue_mask = m
            /\ slide = GridSlide(m, d)
            /\ level = Len(slide.level_downsamples) - 1
            /\ tile_size \in 1 .. MaxTile
            /\ config \in {GridConfig(c) : c \in MinCoverages}
            /\ annotation_dict \in GridAnnotations
       \/ \* a 1000 x 1000 all-tissue mask, tile side 500, min_coverage 0.1
          /\ tissue_mask = [h |-> 1000, w |-> 1000, zero |-> {}]
          /\ slide = GridSlide(tissue_mask, 1)
          /\ level = 0
          /\ tile_size = 500
          /\ config = GridConfig(<<1, 10>>)
          /\ annotation_dict = NoAnnotation
    /\ annotation_file = NoAnnotationFile /\ annotated = ~annotation_dict.is_none
    /\ grid = <<0, 0>> /\ tile_dict = EmptyDict
    /\ res_x = NoRes /\ res_y = NoRes
    /\ fs = EmptyFs /\ first = NoFirst /\ NoBatch
    /\ FreshExtract

SpecGrid == InitGrid /\ [][GetRelevantTilesStep]_vars

\* ---------------------------------------------------- check_for_label alone
MaxRules == 2     \* rules in a table
MaxWindow == 4    \* pixels in the window

RuleNames == <<"a", "b", "c", "d">>
RuleTypes == {"==", ">=", ">", "<=", "<"}
Rules == {[type |-> t, threshold |-> f, annotated |-> a] :
            t \in RuleTypes, f \in Fractions, a \in BOOLEAN}

\* every table of at most MaxRules rules, named in order
RuleTables ==
    UNION {{[i \in 1 .. n |-> Rule(RuleNames[i], f[i].type, f[i].threshold, f[i].annotated)] :
              f \in [1 .. n -> Rules]} : n \in 0 .. MaxRules}

Windows == {[size |-> n, nonzero |-> k] : n \in 1 .. MaxWindow, k \in 0 .. MaxWindow}

InitLabel ==
    /\ pc = "check_for_label" /\ run = 1
    /\ config \in {[Config256 EXCEPT !.label_dict = t] : t \in RuleTables}
    /\ patch_mask \in {m \in Windows : m.nonzero <= m.size}
    /\ slide = Slide512 /\ annotation_file = NoAnnotationFile
    /\ fs = EmptyFs /\ first = NoFirst /\ NoBatch
    /\ FreshPlanner
    /\ px_overlap = 0 /\ patch_dict = EmptyDict /\ patch_nb = 0
    /\ tile_key = 0 /\ rows = 0 /\ cols = 0 /\ row = 0 /\ col = 0
    /\ stop_x = FALSE /\ stop_y = FALSE /\ patch_x = 0 /\ patch_y = 0
    /\ label = None /\ label_percentage = NonePct
    /\ zero_window = FALSE /\ scan = << >>
    /\ patch_size_px_x = 0 /\ patch_size_px_y = 0
    /\ px_overlap_x = 0 /\ px_overlap_y = 0

\* label, label_percentage = self.check_for_label(label_dict, patch_mask)
CheckForLabelStep ==
    /\ pc = "check_for_label"
    /\ LET res == CheckForLabel(config.label_dict, patch_mask) IN
       IF res.raised
       THEN pc' = "error" /\ UNCHANGED <<label, label_percentage>>
       ELSE /\ pc' = "returned"
            /\ label' = res.label
            /\ label_percentage' = res.label_percentage
    /\ UNCHANGED <<batch, run, inputs, planner, fs, first, manifest, loop, patch_mask>>

SpecLabel == InitLabel /\ [][CheckForLabelStep]_vars

\* ------------------------------------------------ extract_calibrated_patches
\* label = self.check_for_label(label_dict, patch_mask): the returned pair
\* itself, not its first component
ReturnedPair(res) == [pair |-> TRUE, label |-> res.label,
                      label_percentage |-> res.label_percentage]

\* self.config["label_dict"][label]: KeyError unless label is a key of the table
LookupRaises(label_dict, key) == key.pair \/ key.label \notin LabelNames(label_dict)

\* cv2.resize(patch, (patch_size, patch_size)) when calibration.resize is set
SavedSizeUnresized(c, ys, xs) == <<Cardinality(xs), Cardinality(ys)>>
SavedSize(c, ys, xs) ==
    IF c.calibration.resize THEN <<c.patch_size, c.patch_size>>
    ELSE <<Cardinality(xs), Cardinality(ys)>>

\* the manifest record of one patch, lines 424-437
CalibratedRecord(slide_name, lbl, global_x, global_y, size_x, size_y, resized) ==
    [slide_name |-> slide_name,
     patch_path |-> <<lbl, <<slide_name, global_x, global_y>>>>,
     label |-> lbl, x_pos |-> global_x, y_pos |-> global_y,
     patch_size_x |-> size_x, patch_size_y |-> size_y, resized |-> resized]

\* lines 318-321
CalibratedStart ==
    /\ pc = "extract_patches" /\ config.calibration.use_non_pixel_lengths
    /\ patch_dict' = EmptyDict
    /\ patch_nb' = 0
    /\ tile_key' = 0
    /\ pc' = "calibrated_tile"
    /\ UNCHANGED <<batch, run, inputs, planner, fs, first, px_overlap, rows, cols, row,
                   col, stop_x, stop_y, patch_x, patch_y, zero_window, scan,
                   calibrated, labelling>>

CalibratedLoopEnd ==
    /\ pc = "calibrated_tile"
    /\ tile_key \notin DOMAIN tile_dict
    /\ pc' = "export_dict"
    /\ UNCHANGED <<batch, run, inputs, planner, fs, first, manifest, loop, labelling>>

\* lines 322-366: the patch sides, the tile's pixel overlaps, rows and cols; a
\* stride of 0 raises ZeroDivisionError
CalibratedTileStart ==
    /\ pc = "calibrated_tile"
    /\ tile_key \in DOMAIN tile_dict
    /\ LET tile == tile_dict[tile_key]
           tile_size_px == tile.size * Downsample(slide, level)
           size_x == PatchSizePx(config.calibration.patch_size_microns, res_x)
           size_y == PatchSizePx(config.calibration.patch_size_microns, res_y)
           overlap_x == PxOverlap(size_x, TileOverlap(config, tile))
           overlap_y == PxOverlap(size_y, TileOverlap(config, tile))
       IN  /\ patch_size_px_x' = size_x /\ patch_size_px_y' = size_y
           /\ px_overlap_x' = overlap_x /\ px_overlap_y' = overlap_y
           /\ scan' = << >>
           /\ zero_window' = FALSE
           /\ IF size_y - overlap_y = 0 \/ size_x - overlap_x = 0
              THEN /\ pc' = "error"
                   /\ UNCHANGED <<tile_key, rows, cols, row, col, stop_x, stop_y>>
              ELSE /\ rows' = LoopCount(tile_size_px, size_y - overlap_y)
                   /\ cols' = LoopCount(tile_size_px, size_x - overlap_x)
                   /\ stop_y' = FALSE
                   /\ IF rows' <= 0
                      THEN /\ tile_key' = tile_key + 1
                           /\ UNCHANGED <<pc, row, col, stop_x>>
                      ELSE /\ row' = 0 /\ col' = 0 /\ stop_x' = FALSE
                           /\ IF cols' <= 0
                              THEN tile_key' = tile_key + 1 /\ UNCHANGED pc
                              ELSE pc' = "calibrated_patch" /\ UNCHANGED tile_key
    /\ UNCHANGED <<batch, run, inputs, planner, fs, first, manifest, px_overlap,
                   patch_x, patch_y, labelling>>

\* lines 370-443: one iteration of the patch loops, with the breaks after it
CalibratedPatchStep ==
    /\ pc = "calibrated_patch"
    /\ LET tile == tile_dict[tile_key]
           scaling_factor == Downsample(slide, level)
           tile_x == tile.x * scaling_factor
           tile_y == tile.y * scaling_factor
           tile_size_px == tile.size * scaling_factor
           new_stop_y == stop_y \/ ReachesEdge(row * (patch_size_px_y - px_overlap_y),
                                               patch_size_px_y, tile_size_px)
           new_stop_x == stop_x \/ ReachesEdge(col * (patch_size_px_x - px_overlap_x),
                                               patch_size_px_x, tile_size_px)
           py == Clamp(row * (patch_size_px_y - px_overlap_y), patch_size_px_y, tile_size_px)
           px == Clamp(col * (patch_size_px_x - px_overlap_x), patch_size_px_x, tile_size_px)
           ys == SliceIdx(py, py + patch_size_px_y, tile_size_px)
           xs == SliceIdx(px, px + patch_size_px_x, tile_size_px)
           global_x == px + tile_x
           global_y == py + tile_y
           zero == config.save_patches /\ WindowIsZero(slide, tile_x, tile_y, ys, xs)
           mask == PatchMask(annotation_dict, tile_x, tile_y, ys, xs)
           \* np.count_nonzero(mask) / mask.size with an empty window
           res == IF mask.size = 0
                  THEN [raised |-> TRUE, label |-> None, label_percentage |-> NonePct]
                  ELSE CheckForLabel(config.label_dict, mask)
           lookup_raises == /\ ~annotation_dict.is_none
                            /\ (res.raised \/ LookupRaises(config.label_dict, ReturnedPair(res)))
           lbl == "unlabeled"
           emit == ~config.save_annotated_only
           \* an empty window cannot be resized or saved; patch.save needs the
           \* label directory
           save_fails == /\ emit /\ config.save_patches
                         /\ (lbl \notin fs.dirs \/ ys = {} \/ xs = {})
           end_row == zero \/ new_stop_x \/ col + 1 >= cols
           end_tile == end_row /\ (new_stop_y \/ row + 1 >= rows)
           failed == ~zero /\ (lookup_raises \/ save_fails)
       IN  /\ patch_x' = px
           /\ patch_y' = py
           /\ stop_y' = new_stop_y
           /\ scan' = Append(scan, <<row, col, px, py, zero>>)
           /\ zero_window' = zero
           /\ patch_mask' = IF zero \/ annotation_dict.is_none THEN patch_mask ELSE mask
           /\ IF zero \/ failed
              THEN UNCHANGED <<label, label_percentage>>
              ELSE label' = lbl /\ label_percentage' = NonePct
           /\ IF ~zero /\ ~failed /\ emit
              THEN /\ patch_dict' = patch_dict @@
                        (patch_nb :> CalibratedRecord(slide.name, lbl, global_x, global_y,
                             patch_size_px_x, patch_size_px_y, config.calibration.resize))
                   /\ patch_nb' = patch_nb + 1
                   /\ fs' = IF config.save_patches
                            THEN [fs EXCEPT !.patches =
                                   [k \in DOMAIN @ \cup {<<lbl, global_x, global_y>>} |->
                                      IF k = <<lbl, global_x, global_y>>
                                      THEN [window |-> <<tile_x, tile_y, ys, xs>>,
                                            size |-> SavedSize(config, ys, xs)]
                                      ELSE @[k]]]
                            ELSE fs
              ELSE UNCHANGED <<patch_dict, patch_nb, fs>>
           /\ IF failed
              THEN /\ pc' = "error"
                   /\ stop_x' = new_stop_x
                   /\ UNCHANGED <<row, col, tile_key>>
              ELSE /\ pc' = IF end_tile THEN "calibrated_tile" ELSE "calibrated_patch"
                   /\ tile_key' = IF end_tile THEN tile_key + 1 ELSE tile_key
                   /\ row' = IF end_row /\ ~end_tile THEN row + 1 ELSE row
                   /\ col' = IF end_tile THEN col ELSE IF end_row THEN 0 ELSE col + 1
                   /\ stop_x' = IF end_row /\ ~end_tile THEN FALSE ELSE new_stop_x
    /\ UNCHANGED <<batch, run, inputs, planner, first, px_overlap, rows, cols, calibrated>>

MaxMicrons == 3    \* patch_size_microns

\* microns per pixel as <<num, den>>
Mpps == {<<1, 2>>, <<1, 1>>, <<2, 1>>}

CalibratedConfigs ==
    [tissue_coverage : {<<1, 2>>},
     blocked_threads : {0},
     patches_per_tile : 1 .. MaxPPT,
     overlap : {<<0, 1>>, <<1, 2>>},
     annotation_overlap : {<<0, 1>>, <<1, 2>>},
     patch_size : {2},
     save_annotated_only : BOOLEAN,
     save_patches : BOOLEAN,
     label_dict : {<< Rule("non_tumor", "==", <<0, 1>>, FALSE),
                      Rule("tumor", ">", <<0, 1>>, TRUE) >>},
     processing_level : {1},
     use_tissue_detection : {FALSE},
     metadata_format : {"json"},
     calibration : [use_non_pixel_lengths : {TRUE},
                    patch_size_microns : 1 .. MaxMicrons,
                    resize : BOOLEAN]]

Scanner(vendor, mpp_x, mpp_y) == [vendor |-> vendor, mpp_x |-> mpp_x, mpp_y |-> mpp_y]

CalibratedSlides ==
    {s @@ p : s \in Slides,
              p \in {Scanner("aperio", x, y) : x \in Mpps, y \in Mpps}
                    \cup {Scanner("generic-tiff", <<1, 1>>, <<1, 1>>),
                          Scanner("hamamatsu", <<1, 1>>, <<1, 1>>)}}

\* slide mpp 0.5, patch_size_microns 128, resize to 224
Config224 ==
    [Config256 EXCEPT !.patch_size = 224, !.save_patches = TRUE,
        !.calibration = [use_non_pixel_lengths |-> TRUE, patch_size_microns |-> 128,
                         resize |-> TRUE]]
SlideHalfMicron == Slide512 @@ Scanner("aperio", <<1, 2>>, <<1, 2>>)

InitCalibrated ==
    /\ pc = "construct" /\ run = 1
    /\ \/ /\ config \in CalibratedConfigs
          /\ slide \in CalibratedSlides
          /\ annotation_file \in
               {NoAnnotationFile,
                [exists |-> TRUE, format |-> ".geojson",
                 polygons |-> <<[x0 |-> 0, y0 |-> 0, x1 |-> 1, y1 |-> 0]>>]}
       \/ config = Config224 /\ slide = SlideHalfMicron /\ annotation_file = NoAnnotationFile
    /\ fs = EmptyFs /\ first = NoFirst /\ NoBatch
    /\ FreshPlanner /\ FreshExtract

NextCalibrated ==
    \/ Construct \/ LoadAnnotationStep \/ LoadSlideStep \/ DetermineTileSizeStep
    \/ GetRelevantTilesStep \/ MakeDirsStep \/ CalibratedStart
    \/ CalibratedLoopEnd \/ CalibratedTileStart \/ CalibratedPatchStep
    \/ ExportDict \/ ExportSlideInfo

SpecCalibrated == InitCalibrated /\ [][NextCalibrated]_vars

\* ------------------------------------------------------------ slides2patches
MaxSlides == 2    \* slide files in the slides directory

Faults == {"none", "unreadable", "vendor", "other", "out_of_band"}
SlideNames == <<"s1", "s2", "s3", "s4">>

\* slide files in sorted order. fault: the file cannot be opened, its vendor
\* is not integrated, a later stage fails, or its resolution is outside the
\* band; patches: the files process_slide leaves in its label directories
SlideLists ==
    UNION {{[i \in 1 .. n |-> [name |-> SlideNames[i], fault |-> f[i],
                               annotated |-> a[i], patches |-> q[i]]] :
              f \in [1 .. n -> Faults], a \in [1 .. n -> BOOLEAN],
              q \in [1 .. n -> 0 .. 1]} : n \in 0 .. MaxSlides}

RunConfigs ==
    {Config256 @@ [skip_unlabeled_slides |-> s, write_slideinfo |-> w,
                   check_resolution |-> r] :
        s \in BOOLEAN, w \in BOOLEAN, r \in BOOLEAN}

InitRun ==
    /\ pc = "slides2patches" /\ run = 1
    /\ config \in RunConfigs
    /\ slide_list \in SlideLists
    /\ multiprocess \in BOOLEAN
    /\ chunksize \in IF multiprocess THEN 1 .. MaxSlides ELSE {1}
    /\ slide_state = << >> /\ idx = 0
    /\ worker = << >> /\ written = {} /\ owners = << >>
    /\ failed_slides = << >> /\ checks = << >>
    /\ slide = Slide512 /\ annotation_file = NoAnnotationFile
    /\ fs = EmptyFs /\ first = NoFirst
    /\ FreshPlanner /\ FreshExtract

\* process_slide: the try/except around its body is commented out (lines
\* 711, 805-806), so a failure in load_slide, init_patch_calibration or any
\* later stage leaves the call as an exception
ProcessSlideRaises(s) == s.fault \in {"unreadable", "vendor", "other"}
ProcessSlide(s) == IF ProcessSlideRaises(s) THEN "error" ELSE "done"

\* check_resolution: the slide opens, its vendor is integrated and the mean
\* of its resolutions lies in res_range
CheckResolution(s) == s.fault \notin {"unreadable", "vendor", "out_of_band"}

\* lines 809-895: the slide list, filtered by skip_unlabeled_slides; with
\* check_resolution, one check per slide, the failing ones collected in
\* failed_slides and printed
Slides2PatchesStart ==
    /\ pc = "slides2patches"
    /\ LET selected == IF config.skip_unlabeled_slides
                       THEN SelectSeq(slide_list, LAMBDA s : s.annotated)
                       ELSE slide_list
           positions == [i \in DOMAIN selected |-> i]
       IN  /\ slide_list' = selected
           /\ checks' = [i \in DOMAIN selected |-> IF config.check_resolution THEN 1 ELSE 0]
           /\ failed_slides' =
                 IF config.check_resolution
                 THEN SelectSeq(positions, LAMBDA i : ~CheckResolution(selected[i]))
                 ELSE << >>
           /\ slide_state' = [i \in DOMAIN selected |-> "pending"]
           /\ pc' = IF Len(selected) = 0 THEN "no_slides"
                    ELSE IF multiprocess THEN "pool" ELSE "loop"
           /\ idx' = IF Len(selected) # 0 /\ ~multiprocess THEN 1 ELSE idx
    /\ UNCHANGED <<run, config, slide, annotation_file, multiprocess, chunksize,
                   pool, planner, fs, first, manifest, loop, labelling>>

\* lines 903-906: one iteration of the sequential loop; an exception of
\* process_slide leaves the loop and slides2patches
SequentialStep ==
    /\ pc = "loop" /\ idx <= Len(slide_list)
    /\ slide_state' = [slide_state EXCEPT ![idx] = ProcessSlide(slide_list[idx])]
    /\ IF ProcessSlideRaises(slide_list[idx])
       THEN pc' = "aborted" /\ UNCHANGED idx
       ELSE pc' = pc /\ idx' = idx + 1
    /\ UNCHANGED <<run, inputs, slide_list, multiprocess, chunksize, resolution, pool,
                   planner, fs, first, manifest, loop, labelling>>

SequentialEnd ==
    /\ pc = "loop" /\ idx > Len(slide_list)
    /\ pc' = "summary"
    /\ UNCHANGED <<run, inputs, batch, planner, fs, first, manifest, loop, labelling>>

\* pool.map cuts slide_list into tasks of chunksize consecutive slides
Chunk(i) == (i - 1) \div chunksize
EarlierInChunk(i) == {j \in DOMAIN slide_list : j < i /\ Chunk(j) = Chunk(i)}

\* line 901: a worker runs process_slide on the next slide of its task; the
\* first exception ends the task
PoolStep ==
    /\ pc = "pool"
    /\ \E i \in DOMAIN slide_list :
         /\ slide_state[i] = "pending"
         /\ \A j \in EarlierInChunk(i) : slide_state[j] = "done"
         /\ slide_state' = [slide_state EXCEPT ![i] = ProcessSlide(slide_list[i])]
    /\ UNCHANGED <<pc, run, inputs, slide_list, multiprocess, chunksize, resolution, idx, pool,
                   planner, fs, first, manifest, loop, labelling>>

TaskOver(i) ==
    \/ slide_state[i] # "pending"
    \/ \E j \in EarlierInChunk(i) : slide_state[j] = "error"

\* line 901: pool.map returns once every task is over, and re-raises the
\* first exception a task ended with
PoolJoin ==
    /\ pc = "pool"
    /\ \A i \in DOMAIN slide_list : TaskOver(i)
    /\ pc' = IF \E i \in DOMAIN slide_list : slide_state[i] = "error"
             THEN "aborted" ELSE "summary"
    /\ UNCHANGED <<run, inputs, batch, planner, fs, first, manifest, loop, labelling>>

\* lines 910-925, for i in range(len(annotated_slides)) on slide_list[i]:
\* os.listdir of a label directory make_dirs did not create raises
\* FileNotFoundError; n_tumor / n_total with no patch file raises
\* ZeroDivisionError
SummaryRaises ==
    /\ config.write_slideinfo /\ Len(config.label_dict) = 2
    /\ \E i \in 1 .. Cardinality({j \in DOMAIN slide_list : slide_list[j].annotated}) :
         ~slide_list[i].annotated \/ slide_list[i].patches = 0

\* lines 913-934: entry i is built from slide_list[i], for i below the number
\* of annotated slides; the counts are the files in the slide's label
\* directories
AnnotatedSlides == SelectSeq(slide_list, LAMBDA s : s.annotated)
SlideDict ==
    [i \in 1 .. Len(AnnotatedSlides) |->
        [slide_name |-> slide_list[i].name, total |-> slide_list[i].patches]]

\* lines 908-942: the label proportions (two-label tables only), then
\* config.json
WriteSummary ==
    /\ pc = "summary"
    /\ IF SummaryRaises
       THEN pc' = "aborted" /\ UNCHANGED fs
       ELSE /\ fs' = IF /\ config.write_slideinfo /\ Len(config.label_dict) = 2
                        /\ ExportDictWrites(config.metadata_format)
                     THEN [fs EXCEPT !.meta = @ \cup {"config.json", "slide_information"},
                                     !.slide_information =
                                         [written |-> TRUE, content |-> SlideDict]]
                     ELSE [fs EXCEPT !.meta = @ \cup {"config.json"}]
            /\ pc' = "finished"
    /\ UNCHANGED <<run, inputs, batch, planner, first, manifest, loop, labelling>>

NextRun ==
    \/ Slides2PatchesStart
    \/ SequentialStep \/ SequentialEnd
    \/ PoolStep \/ PoolJoin
    \/ WriteSummary

SpecRun == InitRun /\ [][NextRun]_vars

\* ------------------------------------------ pool.map: the worker processes
MaxPoolSlides == 2    \* slide files handed to the pool
PoolWorkers == 2      \* processes of the pool

\* slide files in sorted order; two files may share a stem
PoolSlideLists ==
    UNION {{[i \in 1 .. n |-> [name |-> SlideNames[k[i]], fault |-> f[i], annotated |-> a[i],
                               patches |-> 1]] :
              k \in {g \in [1 .. n -> 1 .. MaxPoolSlides] :
                       \A i \in 1 .. n - 1 : g[i] <= g[i + 1]},
              f \in [1 .. n -> {"none", "unreadable"}],
              a \in [1 .. n -> BOOLEAN]} : n \in 1 .. MaxPoolSlides}

\* the handler a task is unpickled with: the fields __init__ set
FreshHandler == [annotation_dict |-> None, slide |-> None, output_path |-> << >>]
Idle == [task |-> -1, pos |-> 0, stage |-> "idle", self |-> FreshHandler]

\* slides2patches at line 901, slide_list not empty
InitPool ==
    /\ pc = "pool" /\ run = 1
    /\ config = Config256 @@ [skip_unlabeled_slides |-> FALSE, write_slideinfo |-> FALSE,
                            check_resolution |-> FALSE]
    /\ slide_list \in PoolSlideLists
    /\ multiprocess = TRUE
    /\ chunksize \in 1 .. MaxPoolSlides
    /\ slide_state = [i \in DOMAIN slide_list |-> "pending"] /\ idx = 0
    /\ worker = [w \in 1 .. PoolWorkers |-> Idle]
    /\ written = {}
    /\ owners = [i \in DOMAIN slide_list |-> {}]
    /\ failed_slides = << >> /\ checks = [i \in DOMAIN slide_list |-> 0]
    /\ slide = Slide512 /\ annotation_file = NoAnnotationFile
    /\ fs = EmptyFs /\ first = NoFirst
    /\ FreshPlanner /\ FreshExtract

\* os.path.join(output_path, slide_name), relative to config["output_path"]
SlidePathShared(slide_name) == <<"patches">>
SlidePath(slide_name) == <<slide_name>>

\* the first slide of task c; a task is handed to one process
TaskHead(c) == c * chunksize + 1
TaskFree(c) == TaskHead(c) \in DOMAIN slide_list /\ owners[TaskHead(c)] = {}

Entries(paths, i, w) == {[path |-> q, slide |-> i, worker |-> w] : q \in paths}

\* a pool process takes the next task from the queue and unpickles the handler
TakeTask(w) ==
    /\ pc = "pool" /\ worker[w].stage = "idle"
    /\ \E c \in 0 .. Len(slide_list) :
         /\ TaskFree(c)
         /\ worker' = [worker EXCEPT ![w] =
                [task |-> c, pos |-> TaskHead(c), stage |-> "process_slide",
                 self |-> FreshHandler]]
         /\ owners' = [owners EXCEPT ![TaskHead(c)] = @ \cup {w}]
    /\ UNCHANGED <<pc, run, inputs, slide_list, multiprocess, chunksize, resolution, slide_state,
                   idx, written, planner, fs, first, manifest, loop, labelling>>

\* process_slide, lines 704-724: self.annotation_dict and load_slide; an
\* exception ends the task
LoadStage(w) ==
    /\ pc = "pool" /\ worker[w].stage = "process_slide"
    /\ LET i == worker[w].pos
           s == slide_list[i]
       IN  IF ProcessSlideRaises(s)
           THEN /\ slide_state' = [slide_state EXCEPT ![i] = "error"]
                /\ worker' = [worker EXCEPT ![w] = Idle]
           ELSE /\ worker' = [worker EXCEPT
                       ![w].self.annotation_dict = IF s.annotated THEN "set" ELSE None,
                       ![w].self.slide = s.name,
                       ![w].stage = "make_dirs"]
                /\ UNCHANGED slide_state
    /\ UNCHANGED <<pc, run, inputs, slide_list, multiprocess, chunksize, resolution, idx, written,
                   owners, planner, fs, first, manifest, loop, labelling>>

\* make_dirs: the slide directory and its label directories; self.output_path
MakeDirsStage(w) ==
    /\ pc = "pool" /\ worker[w].stage = "make_dirs"
    /\ LET i == worker[w].pos
           s == slide_list[i]
           slide_path == SlidePath(s.name)
           subdirs == IF s.annotated THEN LabelNames(config.label_dict) ELSE {"unlabeled"}
       IN  /\ written' = written \cup
                 Entries({slide_path} \cup {slide_path \o <<d>> : d \in subdirs}, i, w)
           /\ worker' = [worker EXCEPT ![w].self.output_path = slide_path,
                                       ![w].stage = "save_thumbnail"]
    /\ UNCHANGED <<pc, run, inputs, slide_list, multiprocess, chunksize, resolution, slide_state,
                   idx, owners, planner, fs, first, manifest, loop, labelling>>

\* save_thumbnail, lines 655-662
ThumbnailStage(w) ==
    /\ pc = "pool" /\ worker[w].stage = "save_thumbnail"
    /\ LET i == worker[w].pos
           slide_path == SlidePath(slide_list[i].name)
       IN  written' = written \cup
               Entries({slide_path \o <<"thumbnail">>, slide_path \o <<"mask_img">>}, i, w)
    /\ worker' = [worker EXCEPT ![w].stage = "extract_patches"]
    /\ UNCHANGED <<pc, run, inputs, slide_list, multiprocess, chunksize, resolution, slide_state,
                   idx, owners, planner, fs, first, manifest, loop, labelling>>

\* the label directory of a patch with annotation coverage: "unlabeled" when
\* the handler holds no annotation set
PatchLabel(annotations) == IF annotations = None THEN "unlabeled" ELSE "tumor"

\* extract_patches, line 563: a patch file below self.output_path
ExtractStage(w) ==
    /\ pc = "pool" /\ worker[w].stage = "extract_patches"
    /\ LET i == worker[w].pos
           h == worker[w].self
       IN  written' = written \cup
               Entries({h.output_path \o <<PatchLabel(h.annotation_dict), slide_list[i].name>>},
                       i, w)
    /\ worker' = [worker EXCEPT ![w].stage = "export"]
    /\ UNCHANGED <<pc, run, inputs, slide_list, multiprocess, chunksize, resolution, slide_state,
                   idx, owners, planner, fs, first, manifest, loop, labelling>>

\* export_dict and export_slide_info; then the next slide of the task
ExportStage(w) ==
    /\ pc = "pool" /\ worker[w].stage = "export"
    /\ LET i == worker[w].pos
           h == worker[w].self
           more == i + 1 \in DOMAIN slide_list /\ Chunk(i + 1) = Chunk(i)
       IN  /\ written' = written \cup
                 Entries({h.output_path \o <<"tile_information">>,
                          SlidePath(slide_list[i].name) \o <<"slide_info">>}, i, w)
           /\ slide_state' = [slide_state EXCEPT ![i] = "done"]
           /\ worker' = IF more
                        THEN [worker EXCEPT ![w].pos = i + 1, ![w].stage = "process_slide"]
                        ELSE [worker EXCEPT ![w] = Idle]
           /\ owners' = IF more THEN [owners EXCEPT ![i + 1] = @ \cup {w}] ELSE owners
    /\ UNCHANGED <<pc, run, inputs, slide_list, multiprocess, chunksize, resolution, idx,
                   planner, fs, first, manifest, loop, labelling>>

NextPool ==
    \/ \E w \in 1 .. PoolWorkers :
         \/ TakeTask(w) \/ LoadStage(w) \/ MakeDirsStage(w)
         \/ ThumbnailStage(w) \/ ExtractStage(w) \/ ExportStage(w)
    \/ PoolJoin
    \/ WriteSummary

SpecPool == InitPool /\ [][NextPool]_vars

\* ------------------------------------------------------------------ claims
PlannerDone == pc = "make_dirs"

\* the cells <<row, col>> of the grid the planner scanned
GridCells == (0 .. grid[1] - 1) \X (0 .. grid[2] - 1)

\* mask pixel <<y, x>> lies in the cell <<row, col>>
InCell(y, x, cell) ==
    /\ y \in CellIdx(cell[1], tile_size, tissue_mask.h)
    /\ x \in CellIdx(cell[2], tile_size, tissue_mask.w)

\* C1: for every mask of height H and width W and every tile side s >= 1 the
\* planner scans ceil(H/s) rows and ceil(W/s) columns of cells, clamped to
\* the mask by slicing, and every mask pixel lies in exactly one cell.
C1_GridCoversMask ==
    PlannerDone =>
        /\ grid = <<CeilDiv(tissue_mask.h, tile_size), CeilDiv(tissue_mask.w, tile_size)>>
        /\ \A y \in 0 .. tissue_mask.h - 1, x \in 0 .. tissue_mask.w - 1 :
               Cardinality({cell \in GridCells : InCell(y, x, cell)}) = 1

\* a grid whose last row and last column are partial cells
C1_Witness ==
    /\ PlannerDone
    /\ tissue_mask.h % tile_size # 0 /\ tissue_mask.w % tile_size # 0
    /\ grid[1] >= 2 /\ grid[2] >= 2

\* the pixels of a cell, its tissue pixels and its annotation pixels, read
\* off the rasters pixel by pixel
CellPixels(cell) ==
    {p \in (0 .. tissue_mask.h - 1) \X (0 .. tissue_mask.w - 1) : InCell(p[1], p[2], cell)}
CellTissue(cell) == {p \in CellPixels(cell) : p \notin tissue_mask.zero}
CellHasAnnotation(cell) ==
    /\ ~annotation_dict.is_none
    /\ \E p \in CellPixels(cell) :
           LevelAnnotated(annotation_dict, Downsample(slide, level), p[1], p[2])
CellCoverageOk(cell) ==
    Cardinality(CellTissue(cell)) * config.tissue_coverage[2]
        >= config.tissue_coverage[1] * Cardinality(CellPixels(cell))
TilesOfCell(cell) ==
    {k \in DOMAIN tile_dict : /\ tile_dict[k].x = cell[2] * tile_size
                              /\ tile_dict[k].y = cell[1] * tile_size}

\* C2: a grid cell is kept iff tissue pixels / cell pixels >= min_coverage or
\* the cell holds an annotation pixel; a kept tile's 'annotated' flag is true
\* exactly when the cell holds an annotation pixel; the all-tissue
\* 1000 x 1000 mask with tile side 500, min_coverage 0.1 and no annotations
\* yields exactly 4 tiles, each annotated=False.
C2_SelectionRule ==
    PlannerDone =>
        /\ \A cell \in GridCells :
             /\ (TilesOfCell(cell) # {}) <=> (CellCoverageOk(cell) \/ CellHasAnnotation(cell))
             /\ Cardinality(TilesOfCell(cell)) <= 1
             /\ \A k \in TilesOfCell(cell) :
                    tile_dict[k].annotated <=> CellHasAnnotation(cell)
        /\ ( /\ tissue_mask = [h |-> 1000, w |-> 1000, zero |-> {}]
             /\ tile_size = 500 /\ config.tissue_coverage = <<1, 10>>
             /\ annotation_dict.is_none )
           => /\ DOMAIN tile_dict = 0 .. 3
              /\ \A k \in DOMAIN tile_dict : ~tile_dict[k].annotated

\* an annotated cell with tissue coverage 0 is kept at min_coverage 1/2
C2_Witness ==
    /\ PlannerDone
    /\ config.tissue_coverage = <<1, 2>>
    /\ \E cell \in GridCells :
         /\ CellTissue(cell) = {}
         /\ CellHasAnnotation(cell)
         /\ \E k \in TilesOfCell(cell) : tile_dict[k].annotated

\* 'coverage op threshold' for the rule's own operator and threshold
RuleSatisfied(rule, coverage) ==
    CASE rule.type = "==" -> FracEq(coverage, rule.threshold)
      [] rule.type = ">=" -> FracLe(rule.threshold, coverage)
      [] rule.type = ">"  -> FracLt(rule.threshold, coverage)
      [] rule.type = "<=" -> FracLe(coverage, rule.threshold)
      [] rule.type = "<"  -> FracLt(coverage, rule.threshold)
      [] OTHER -> FALSE

SatisfiedRules(label_dict, coverage) ==
    {i \in DOMAIN label_dict : RuleSatisfied(label_dict[i], coverage)}

WindowCoverage(m) == <<m.nonzero, m.size>>

\* C5: check_for_label returns the first label, in the declared order of the
\* rule table, whose rule the window's coverage fraction satisfies, together
\* with that fraction, and returns no label when no rule is satisfied.
C5_FirstSatisfiedRuleWins ==
    pc \in {"returned", "error"} =>
        LET sat == SatisfiedRules(config.label_dict, WindowCoverage(patch_mask)) IN
        /\ pc = "returned"
        /\ IF sat = {}
           THEN label = None /\ label_percentage = NonePct
           ELSE /\ label = config.label_dict[CHOOSE i \in sat : \A j \in sat : i <= j].name
                /\ label_percentage = WindowCoverage(patch_mask)

\* ---- extract_patches: the tile whose loops have just ended
TileDone == pc = "tile" /\ scan # << >>
NoZeroWindow == \A i \in DOMAIN scan : ~scan[i][5]
TilePx == tile_size * Downsample(slide, level)
Stride == config.patch_size - px_overlap
RowsVisited == Cardinality({scan[i][1] : i \in DOMAIN scan})
ColsVisited == Cardinality({scan[i][2] : i \in DOMAIN scan})

\* C3 as stated: the number of patch positions generated along each axis of
\* a tile is exactly ceil(tile_side_px / stride).
C3_CountIsCeil ==
    (TileDone /\ NoZeroWindow) =>
        /\ RowsVisited = CeilDiv(TilePx, Stride)
        /\ ColsVisited = CeilDiv(TilePx, Stride)

\* n is the smallest count >= 1 of strides after which a patch reaches the edge
SmallestReaching(n) ==
    /\ n >= 1
    /\ (n - 1) * Stride + config.patch_size >= TilePx
    /\ n >= 2 => (n - 2) * Stride + config.patch_size < TilePx

\* C3 amended: the number of patch positions generated along each axis is the
\* smallest n >= 1 with (n-1)*stride + patch_side >= tile_side_px; it is at
\* most ceil(tile_side_px / stride) and equals it when the pixel overlap is
\* 0; patch_side=256, overlap=0, tile_side_px=512 gives 2 x 2 = 4 patches.
C3_CountUntilEdge ==
    (TileDone /\ NoZeroWindow) =>
        /\ SmallestReaching(ColsVisited)
        /\ RowsVisited = ColsVisited
        /\ Len(scan) = RowsVisited * ColsVisited
        /\ ColsVisited <= CeilDiv(TilePx, Stride)
        /\ px_overlap = 0 => ColsVisited = CeilDiv(TilePx, Stride)
        /\ (config.patch_size = 256 /\ px_overlap = 0 /\ TilePx = 512)
              => (ColsVisited = 2 /\ Len(scan) = 4 /\ patch_nb = 4)

\* overlapping patches: fewer positions than ceil(tile_side_px / stride)
C3_Witness ==
    /\ TileDone /\ NoZeroWindow
    /\ px_overlap > 0
    /\ ColsVisited >= 2
    /\ ColsVisited < CeilDiv(TilePx, Stride)

\* C4: every patch position generated inside a tile lies fully inside it,
\* 0 <= patch_x, patch_x + patch_side <= tile_side_px and the same for y, and
\* the last patch generated on each axis ends exactly at the tile edge.
C4_PatchInsideTile ==
    /\ \A i \in DOMAIN scan :
         /\ 0 <= scan[i][3] /\ scan[i][3] + config.patch_size <= TilePx
         /\ 0 <= scan[i][4] /\ scan[i][4] + config.patch_size <= TilePx
    /\ (TileDone /\ NoZeroWindow) =>
         /\ scan[Len(scan)][3] + config.patch_size = TilePx
         /\ scan[Len(scan)][4] + config.patch_size = TilePx

\* a patch was evaluated in the step and no rule of the table holds for it
EvaluatedNoRule ==
    /\ pc = "patch" /\ ~annotation_dict.is_none /\ ~zero_window'
    /\ SatisfiedRules(config.label_dict, WindowCoverage(patch_mask')) = {}

\* C6: without an annotation set every emitted patch is labelled
\* "unlabeled"; with one, a patch whose coverage satisfies no rule is not
\* emitted: no manifest record, no image, and the patch counter stays.
C6_UnlabeledOrDropped ==
    /\ [](annotation_dict.is_none =>
            \A k \in DOMAIN patch_dict : patch_dict[k].label = "unlabeled")
    /\ [][EvaluatedNoRule => UNCHANGED <<patch_dict, patch_nb, fs>>]_vars

\* a patch that satisfied no rule, after patches that were emitted
C6_Witness ==
    /\ pc \in {"patch", "tile"} /\ scan # << >> /\ ~zero_window
    /\ ~annotation_dict.is_none
    /\ label = None
    /\ SatisfiedRules(config.label_dict, WindowCoverage(patch_mask)) = {}
    /\ patch_nb > 0 /\ patch_nb < Len(scan)

\* ---- the patch positions of a tile, from the loop bounds and the breaks
TileStride(k) ==
    config.patch_size - PxOverlap(config.patch_size, TileOverlap(config, tile_dict[k]))
AxisPositions(stride) ==
    IF stride <= 0 THEN {}
    ELSE {Clamp(j * stride, config.patch_size, TilePx) :
            j \in {i \in 0 .. CeilDiv(TilePx, stride) - 1 :
                     i = 0 \/ ~ReachesEdge((i - 1) * stride, config.patch_size, TilePx)}}

\* label evaluation of the patch at <<px, py>> of tile k assigns a label
\* whose rule is flagged as an annotation class
AssignsAnnotationLabel(k, px, py) ==
    /\ ~annotation_dict.is_none
    /\ LET sf == Downsample(slide, level)
           res == CheckForLabel(config.label_dict,
                     PatchMask(annotation_dict, tile_dict[k].x * sf, tile_dict[k].y * sf,
                               SliceIdx(py, py + config.patch_size, TilePx),
                               SliceIdx(px, px + config.patch_size, TilePx)))
       IN  ~res.raised /\ res.label # None
             /\ LabelIsAnnotated(config.label_dict, res.label)

Emitted(global_x, global_y) ==
    \E n \in DOMAIN patch_dict :
        patch_dict[n].x_pos = global_x /\ patch_dict[n].y_pos = global_y

\* C7 as stated: in save-annotated-only mode a patch is emitted iff label
\* evaluation assigns it a label flagged as an annotation class, whatever its
\* tile's 'annotated' flag.
C7_EmittedIffAnnotationLabel ==
    (pc = "export_dict" /\ config.save_annotated_only /\ ~config.save_patches) =>
        \A k \in DOMAIN tile_dict :
            \A px \in AxisPositions(TileStride(k)), py \in AxisPositions(TileStride(k)) :
                Emitted(tile_dict[k].x * Downsample(slide, level) + px,
                        tile_dict[k].y * Downsample(slide, level) + py)
                  <=> AssignsAnnotationLabel(k, px, py)

InUnit(f) == FracLe(<<0, 1>>, f) /\ FracLe(f, <<1, 1>>)
InHalfOpenUnit(f) == FracLe(<<0, 1>>, f) /\ FracLt(f, <<1, 1>>)

\* C9: a configuration whose tissue_coverage is outside [0,1], or whose
\* overlap or annotation_overlap is outside [0,1), is refused by the
\* constructor, so no stride of zero or less occurs during extraction.
C9_RangesEnforced ==
    /\ pc \notin {"construct", "rejected"} =>
         /\ InUnit(config.tissue_coverage)
         /\ InHalfOpenUnit(config.overlap)
         /\ InHalfOpenUnit(config.annotation_overlap)
    /\ pc \in {"tile", "patch", "error", "export_dict"} => Stride > 0

\* C10: a second run on the same inputs and configuration produces the same
\* manifest (same keys in the same order, same records) and leaves the
\* output files as the first run left them.
C10_RerunReproduces ==
    (run = 2 /\ Terminal) =>
        /\ pc = first.pc
        /\ patch_dict = first.patch_dict
        /\ fs = first.fs

\* a second run that has written patches over those of the first
C10_Witness ==
    /\ run = 2 /\ pc = "done"
    /\ config.save_patches /\ patch_nb > 1
    /\ DOMAIN fs.patches # {}

\* C8: an error raised while one slide is processed puts only that slide in
\* the error state: slides2patches is never left by the exception, and when
\* it has finished every other slide is done and config.json is written, in
\* the pooled and in the sequential mode.
C8_ErrorIsolated ==
    /\ pc # "aborted"
    /\ pc = "finished" =>
         /\ \A i \in DOMAIN slide_list :
              slide_state[i] = IF ProcessSlideRaises(slide_list[i]) THEN "error" ELSE "done"
         /\ "config.json" \in fs.meta

UniqueNames ==
    \A i, j \in DOMAIN slide_list : slide_list[i].name = slide_list[j].name => i = j

\* what process_slide writes for slide s, called on a fresh handler
ExpectedPaths(s) ==
    LET d == <<s.name>>
        subdirs == IF s.annotated THEN LabelNames(config.label_dict) ELSE {"unlabeled"}
    IN  {d, d \o <<"thumbnail">>, d \o <<"mask_img">>, d \o <<"tile_information">>,
         d \o <<"slide_info">>,
         d \o <<IF s.annotated THEN "tumor" ELSE "unlabeled", s.name>>}
        \cup {d \o <<l>> : l \in subdirs}

PathsOf(i) == {e.path : e \in {x \in written : x.slide = i}}

\* C11: with unique slide names, under every interleaving of the pool
\* processes each slide is processed by exactly one of them from start to
\* finish, every path written for a slide lies under its own directory,
\* the paths of two slides are disjoint, and what is written for a slide is
\* what a fresh handler writes for it.
C11_WorkersDisjoint ==
    (pc \in {"pool", "summary", "aborted", "finished"} /\ worker # << >> /\ UniqueNames) =>
        /\ \A i \in DOMAIN slide_list :
             /\ Cardinality(owners[i]) <= 1
             /\ slide_state[i] # "pending" => Cardinality(owners[i]) = 1
             /\ slide_state[i] = "done" => PathsOf(i) = ExpectedPaths(slide_list[i])
        /\ \A e \in written :
             /\ Len(e.path) >= 1 /\ e.path[1] = slide_list[e.slide].name
             /\ owners[e.slide] = {e.worker}
             /\ e.path \in ExpectedPaths(slide_list[e.slide])
        /\ \A e1, e2 \in written : e1.slide # e2.slide => e1.path # e2.path

\* two slides done by two different processes, and a process that did two
\* slides one after the other
C11_Witness ==
    /\ pc = "summary" /\ UniqueNames /\ Len(slide_list) = MaxPoolSlides
    /\ \A i \in DOMAIN slide_list : slide_state[i] = "done"
    /\ \E i, j \in DOMAIN slide_list : owners[i] # owners[j]
    /\ \E i \in DOMAIN slide_list : slide_list[i].annotated

\* every slide of the run is annotated and processed without an exception
QuietRun ==
    \A i \in DOMAIN slide_list :
        slide_list[i].annotated /\ ~ProcessSlideRaises(slide_list[i])

\* C12: a slide for which extraction produces no patch does not fail the
\* run: the remaining slides are processed and the slide-level summary step
\* completes, so that slides2patches finishes with its files written.
C12_EmptyOutputTolerated ==
    (/\ pc # "slides2patches" /\ QuietRun
     /\ \E i \in DOMAIN slide_list : slide_list[i].patches = 0) =>
        /\ pc # "aborted"
        /\ pc = "finished" =>
             /\ \A i \in DOMAIN slide_list : slide_state[i] = "done"
             /\ "config.json" \in fs.meta
             /\ (config.write_slideinfo /\ Len(config.label_dict) = 2)
                   => "slide_information" \in fs.meta

FailedPositions == {failed_slides[k] : k \in DOMAIN failed_slides}

\* C15: with the resolution check enabled, each slide is checked once; a
\* slide that cannot be opened or whose resolution is outside the band is
\* recorded as failed and never handed to process_slide, and the remaining
\* slides are processed.
C15_FailedCheckSkipped ==
    (config.check_resolution /\ pc # "slides2patches") =>
        /\ \A i \in DOMAIN slide_list :
             /\ checks[i] = 1
             /\ ~CheckResolution(slide_list[i]) =>
                   (i \in FailedPositions /\ slide_state[i] = "pending")
        /\ pc \in {"summary", "finished"} =>
             \A i \in DOMAIN slide_list :
                 CheckResolution(slide_list[i]) => slide_state[i] # "pending"

UnsupportedAnnotation ==
    annotation_file.exists /\ annotation_file.format \notin SupportedFormats

WrittenPatches == {k[1] : k \in DOMAIN fs.patches}

\* C13: a slide whose annotation file exists with an unsupported extension
\* is processed as an unannotated slide without an error: load_annotation
\* yields no annotations, every emitted patch is labelled "unlabeled", and
\* when patches are saved the "unlabeled" directory exists before the first
\* write and receives them.
C13_UnsupportedFormatUnlabeled ==
    (UnsupportedAnnotation /\ pc \notin {"construct", "rejected", "load_annotation"}) =>
        /\ annotation_dict.is_none
        /\ \A k \in DOMAIN patch_dict : patch_dict[k].label = "unlabeled"
        /\ WrittenPatches \subseteq {"unlabeled"}
        /\ (config.save_patches /\ pc \in {"extract_patches", "tile", "patch"})
              => "unlabeled" \in fs.dirs
        /\ ~(pc = "error" /\ scan # << >>)

\* the patch sides of extract_calibrated_patches have been computed
SidesComputed == pc = "calibrated_patch" \/ (pc # "error" /\ scan # << >>)

Distance(a, b) == IF a >= b THEN a - b ELSE b - a

\* n is the integer nearest to microns / res, the even one of two
Nearest(n, microns, res) ==
    LET twice == 2 * Distance(n * res[1], microns * res[2]) IN
    /\ twice <= res[1]
    /\ twice = res[1] => n % 2 = 0

\* C14: in calibration mode the patch side in pixels on each axis is
\* round(patch_size_microns / mpp of that axis), so that mpp 0.5 and 128
\* microns give 256; with resizing enabled every saved patch is patch_size x
\* patch_size (224 x 224) and its manifest record is marked resized.
C14_CalibratedSides ==
    /\ SidesComputed =>
         /\ Nearest(patch_size_px_x, config.calibration.patch_size_microns, res_x)
         /\ Nearest(patch_size_px_y, config.calibration.patch_size_microns, res_y)
         /\ (config.calibration.patch_size_microns = 128 /\ res_x = <<1, 2>>)
               => patch_size_px_x = 256
    /\ config.calibration.use_non_pixel_lengths =>
         /\ \A k \in DOMAIN fs.patches :
              config.calibration.resize =>
                  fs.patches[k].size = <<config.patch_size, config.patch_size>>
         /\ \A n \in DOMAIN patch_dict :
              /\ patch_dict[n].resized = config.calibration.resize
              /\ patch_dict[n].patch_size_x = patch_size_px_x
              /\ patch_dict[n].patch_size_y = patch_size_px_y
              /\ config.save_patches =>
                   <<patch_dict[n].label, patch_dict[n].x_pos, patch_dict[n].y_pos>>
                       \in DOMAIN fs.patches

\* 128 microns at 0.5 microns per pixel: four patches of side 256 saved as
\* 224 x 224
C14_Witness ==
    /\ pc = "done" /\ config.calibration.resize
    /\ config.calibration.patch_size_microns = 128 /\ res_x = <<1, 2>>
    /\ patch_size_px_x = 256 /\ patch_size_px_y = 256
    /\ patch_nb = 4
    /\ \A k \in DOMAIN fs.patches : fs.patches[k].size = <<224, 224>>
    /\ Cardinality(DOMAIN fs.patches) = 4

\* the table holds a label that is not an annotation class
HasFallback(label_dict) == \E i \in DOMAIN label_dict : ~label_dict[i].annotated

\* C16: a window whose annotation coverage is 0 is never given a label
\* flagged as an annotation class when the rule table also holds a label
\* that is not one, whatever the rule table.
C16_ZeroCoverageFallback ==
    (pc = "returned" /\ patch_mask.nonzero = 0 /\ HasFallback(config.label_dict)) =>
        ~(label # None /\ LabelIsAnnotated(config.label_dict, label))

\* C17: each of the five operators compares the coverage with the rule's own
\* threshold, and no rule raises: the call returns, a returned label's rule
\* holds for the coverage, and no label is returned only when no rule holds.
C17_OwnThresholdNoError ==
    pc \in {"returned", "error"} =>
        /\ pc # "error"
        /\ \A i \in DOMAIN config.label_dict :
             label = config.label_dict[i].name =>
                 RuleSatisfied(config.label_dict[i], WindowCoverage(patch_mask))
        /\ label = None =>
             SatisfiedRules(config.label_dict, WindowCoverage(patch_mask)) = {}

\* C18: for a slide with annotations the calibrated extractor completes its
\* patch loop without error, and every patch it records carries a label name
\* of the rule table
C18_CalibratedLabelsByRuleTable ==
    (config.calibration.use_non_pixel_lengths /\ ~annotation_dict.is_none) =>
        /\ ~(pc = "error" /\ scan # << >>)
        /\ \A k \in DOMAIN patch_dict :
             patch_dict[k].label \in LabelNames(config.label_dict)

\* the overlap fraction the flag of the current tile selects
FlagOverlap ==
    IF tile_dict[tile_key].annotated THEN config.annotation_overlap ELSE config.overlap

\* C19 as stated: on every tile the stride is patch_size * (1 - overlap fraction)
\* for the fraction the tile's flag selects
C19_StrideIsExactProduct ==
    pc = "patch" =>
        Stride * FlagOverlap[2] = config.patch_size * (FlagOverlap[2] - FlagOverlap[1])

\* C19: on every tile the stride is patch_size - int(patch_size * overlap
\* fraction) for the fraction the tile's own flag selects, whatever the tile
\* before it used, and every patch of the tile is placed at a multiple of that
\* stride or against the tile's far edge
C19_StrideByTileFlag ==
    pc = "patch" =>
        LET expected == config.patch_size
                          - PyInt(config.patch_size * FlagOverlap[1], FlagOverlap[2])
        IN  /\ Stride = expected
            /\ \A i \in DOMAIN scan :
                 /\ scan[i][3] \in {scan[i][2] * expected, TilePx - config.patch_size}
                 /\ scan[i][4] \in {scan[i][1] * expected, TilePx - config.patch_size}

\* the stride has been chosen for a tile whose flag differs from the flag of
\* the tile processed before it and selects another pixel overlap
C19_Witness ==
    /\ pc = "patch"
    /\ tile_key >= 1
    /\ ~config.save_annotated_only
    /\ tile_dict[tile_key].annotated # tile_dict[tile_key - 1].annotated
    /\ PxOverlap(config.patch_size, config.overlap)
         # PxOverlap(config.patch_size, config.annotation_overlap)

\* C20: determine_tile_size returns patches_per_tile * patch_size divided by
\* the level's downsample factor, rounded to the nearest integer, and the
\* result is at least 1
C20_TileSizeRoundedPositive ==
    (pc = "get_relevant_tiles" /\ ~config.calibration.use_non_pixel_lengths) =>
        /\ tile_size = RoundHalfEven(config.patches_per_tile * config.patch_size,
                                     Downsample(slide, level))
        /\ tile_size >= 1

\* the position of a control point in the order of process_slide's stages
StageRank(p) ==
    CASE p = "construct" -> 0
      [] p = "load_annotation" -> 1
      [] p = "load_slide" -> 2
      [] p = "determine_tile_size" -> 3
      [] p = "get_relevant_tiles" -> 4
      [] p = "make_dirs" -> 5
      [] p = "extract_patches" -> 6
      [] p \in {"tile", "patch"} -> 7
      [] p = "export_dict" -> 8
      [] p = "export_slide_info" -> 9
      [] p = "done" -> 10
      [] OTHER -> 11

\* no step of process_slide returns to an earlier stage
StagesNeverGoBack == [][StageRank(pc') >= StageRank(pc)]_vars

\* the manifest is written at most once, by the manifest stage, after the tile
\* loop is exhausted
ManifestWrittenOnceAfterExtraction ==
    [][fs'.tile_information # fs.tile_information =>
          /\ pc = "export_dict" /\ ~fs.tile_information.written
          /\ tile_key \notin DOMAIN tile_dict]_vars

\* C21: the stages of process_slide run in their fixed order with none gone
\* back to, the manifest is written once and only after the tile loop is
\* exhausted, and the slide is done only with its manifest and its slide info
\* written
C21_StagesInOrderManifestOnce ==
    [][/\ StageRank(pc') >= StageRank(pc)
       /\ fs'.tile_information # fs.tile_information =>
             /\ pc = "export_dict" /\ ~fs.tile_information.written
             /\ tile_key \notin DOMAIN tile_dict
       /\ pc' = "done" =>
             fs'.tile_information.written /\ "slide_info" \in fs'.meta]_vars

\* one entry per annotated slide of the run, with that slide's name and count
ExpectedSummary ==
    [i \in DOMAIN AnnotatedSlides |->
        [slide_name |-> AnnotatedSlides[i].name, total |-> AnnotatedSlides[i].patches]]

AllSlidesDone ==
    /\ slide_state # << >>
    /\ \A i \in DOMAIN slide_state : slide_state[i] = "done"

\* C22: with write_slideinfo and a two-label table the summary is built only
\* after every slide is done, and once the run is over with every slide done
\* it holds one entry per annotated slide, each with that slide's own name and
\* patch count, whether or not unannotated slides are in the slide list
C22_SummaryPerAnnotatedSlide ==
    (config.write_slideinfo /\ Len(config.label_dict) = 2) =>
        /\ fs.slide_information.written => AllSlidesDone
        /\ (pc \in {"finished", "aborted"} /\ AllSlidesDone) =>
              /\ fs.slide_information.written
              /\ fs.slide_information.content = ExpectedSummary

\* C23: within one slide the emitted records have pairwise different origins
\* and file paths, every saved patch has a file of its own, and the manifest
\* keys are 0 .. n-1, each record added under the next free key with the
\* earlier records left as they were
C23_OriginsUniqueKeysDense ==
    /\ [](/\ \A j, k \in DOMAIN patch_dict :
               j # k => /\ <<patch_dict[j].x_pos, patch_dict[j].y_pos>>
                             # <<patch_dict[k].x_pos, patch_dict[k].y_pos>>
                        /\ patch_dict[j].patch_path # patch_dict[k].patch_path
          /\ DOMAIN patch_dict = 0 .. patch_nb - 1
          /\ config.save_patches =>
               Cardinality(DOMAIN fs.patches) = Cardinality(DOMAIN patch_dict))
    /\ [][pc = "patch" /\ patch_dict' # patch_dict =>
             /\ DOMAIN patch_dict' = DOMAIN patch_dict \cup {patch_nb}
             /\ patch_nb \notin DOMAIN patch_dict
             /\ \A k \in DOMAIN patch_dict : patch_dict'[k] = patch_dict[k]]_vars

\* the manifest of a slide with several tiles and saved patches, two of its
\* records lying at the same place of neighbouring tiles
C23_Witness ==
    /\ pc = "export_dict" /\ config.save_patches
    /\ ~config.calibration.use_non_pixel_lengths
    /\ Cardinality(DOMAIN tile_dict) >= 2
    /\ patch_nb >= 4
    /\ \E j, k \in DOMAIN patch_dict :
         /\ patch_dict[k].x_pos = patch_dict[j].x_pos + TilePx
         /\ patch_dict[k].y_pos = patch_dict[j].y_pos

====
